---- MODULE Spec2Model ----
(***************************************************************************)
(* Model of the Spotify tool host (src/spotify_mcp/server.py) and of the   *)
(* one-shot agent client (src/spotify_mcp/client.py).                      *)
(*                                                                         *)
(* Tool host: every tool is a coroutine that validates its arguments,      *)
(* awaits at most one operation of the backing client and turns the        *)
(* outcome into a string.  A string is modelled as the sequence of its     *)
(* lexical tokens (words and punctuation marks, white space dropped), so   *)
(* that "contains the word w" and "begins with" are decidable.  The        *)
(* backing client is external: the outcome of the awaited call is an       *)
(* input (a returned Python value, or a raised exception).                 *)
(*                                                                         *)
(* Agent client: a single process that parses its argument, enters the     *)
(* agent's context (opening the tool hosts of its toolsets), runs the      *)
(* agent, leaves the context and prints.  Its observable effects are       *)
(* appended to the log `events`.                                           *)
(***************************************************************************)
EXTENDS Integers, Sequences, FiniteSets, TLC

VARIABLES
    last,        \* tool host: the most recent tool invocation and its result
    cpc,         \* agent client: position in main()
    query,       \* agent client: args.query once parsed
    opened,      \* agent client: tool hosts whose connection is open
    result,      \* agent client: outcome of agent.run
    events       \* agent client: log of observable effects, oldest first

vars == <<last, cpc, query, opened, result, events>>
hostVars == <<last>>
clientVars == <<cpc, query, opened, result, events>>

----------------------------------------------------------------------------
(* Bounds of the inputs.                                                   *)

MaxSkips == 3        \* num_skips is drawn from 0..MaxSkips
MaxLimit == 2        \* limit is drawn from 0..MaxLimit

(* Defaults of the tool signatures.                                        *)
DefaultNumSkips == 1
DefaultLimit == 10

----------------------------------------------------------------------------
(* Python values.                                                          *)

None == [t |-> "None"]
PyStr(s) == [t |-> "str", s |-> s]
PyInt(n) == [t |-> "int", n |-> n]
PyList(xs) == [t |-> "list", items |-> xs]
PyDict(kvs) == [t |-> "dict", items |-> kvs]     \* sequence of <<key, value>>
PyObject == [t |-> "object"]                     \* a value json cannot encode

\* bool(v), as used by `if v` and `not v`
truthy(v) ==
    CASE v.t = "None" -> FALSE
      [] v.t = "str" -> v.s /= ""
      [] v.t = "int" -> v.n /= 0
      [] v.t \in {"list", "dict"} -> v.items /= <<>>
      [] OTHER -> TRUE

\* a or b
py_or(a, b) == IF truthy(a) THEN a ELSE b

\* The outcome of evaluating an expression or awaiting a call.
Ret(v) == [k |-> "return", v |-> v]
Exc(cls, msg) == [k |-> "raise", cls |-> cls, msg |-> msg]

\* The exception classes that occur, each with the classes it is an
\* instance of.
ExcBases ==
    [SpotifyException |-> {"SpotifyException", "Exception", "BaseException"},
     ConnectionError  |-> {"ConnectionError", "Exception", "BaseException"},
     TypeError        |-> {"TypeError", "Exception", "BaseException"},
     AttributeError   |-> {"AttributeError", "Exception", "BaseException"}]

isinstance(cls, base) == base \in ExcBases[cls]

----------------------------------------------------------------------------
(* json.dumps(v, indent=2), as tokens.                                     *)

RECURSIVE json_serializable(_)
json_serializable(v) ==
    CASE v.t \in {"None", "str", "int"} -> TRUE
      [] v.t = "list" -> \A i \in DOMAIN v.items : json_serializable(v.items[i])
      [] v.t = "dict" -> \A i \in DOMAIN v.items : json_serializable(v.items[i][2])
      [] OTHER -> FALSE

json_string(s) == "\"" \o s \o "\""

RECURSIVE json_encode(_)
json_encode(v) ==
    CASE v.t = "None" -> <<"null">>
      [] v.t = "str" -> <<json_string(v.s)>>
      [] v.t = "int" -> <<ToString(v.n)>>
      [] v.t = "list" ->
            IF v.items = <<>> THEN <<"[]">>
            ELSE LET RECURSIVE elems(_)
                     elems(i) ==
                        IF i > Len(v.items) THEN <<>>
                        ELSE (IF i > 1 THEN <<",">> ELSE <<>>)
                             \o json_encode(v.items[i]) \o elems(i + 1)
                 IN <<"[">> \o elems(1) \o <<"]">>
      [] v.t = "dict" ->
            IF v.items = <<>> THEN <<"{}">>
            ELSE LET RECURSIVE members(_)
                     members(i) ==
                        IF i > Len(v.items) THEN <<>>
                        ELSE (IF i > 1 THEN <<",">> ELSE <<>>)
                             \o <<json_string(v.items[i][1]), ":">>
                             \o json_encode(v.items[i][2]) \o members(i + 1)
                 IN <<"{">> \o members(1) \o <<"}">>

json_dumps(v) ==
    IF json_serializable(v) THEN Ret(json_encode(v))
    ELSE Exc("TypeError", "Object of type object is not JSON serializable")

----------------------------------------------------------------------------
(* Calls of the backing client and results of a tool.                      *)

NoArgs == <<>>

\* spotify_client.<op>(*args, **kwargs)
Call(op, args, kwargs) == [op |-> op, args |-> args, kwargs |-> kwargs]

\* What a tool did: the backing calls it made, in order, and how it ended.
Done(calls, out) == [calls |-> calls, out |-> out]

\* The value bound to parameter `name`: the argument supplied, else the
\* default of the signature.
Param(kwargs, name, default) ==
    IF name \in DOMAIN kwargs THEN kwargs[name] ELSE default

\* `return json.dumps(v, indent=2)` after the calls `calls`
ReturnJson(calls, v) == Done(calls, json_dumps(v))

----------------------------------------------------------------------------
(* TOOL: playback                                                          *)

\* A faulty default of num_skips, used to show that the forwarding property
\* depends on the signature.
playback_num_skips_default2(kwargs) == Param(kwargs, "num_skips", PyInt(2))

playback_num_skips(kwargs) == Param(kwargs, "num_skips", PyInt(DefaultNumSkips))

\* The body of the try statement.
playback_try(action, spotify_uri, num_skips, beh) ==
    IF action = "get" THEN
        LET calls == <<Call("get_current_track", <<>>, NoArgs)>> IN
        IF beh.k = "raise" THEN Done(calls, beh)
        ELSE IF truthy(beh.v) THEN
            \* curr_track.get('name', 'Unknown') needs a mapping
            IF beh.v.t /= "dict"
            THEN Done(calls, Exc("AttributeError", "object has no attribute 'get'"))
            ELSE ReturnJson(calls, beh.v)
        ELSE Done(calls, Ret(<<"No", "track", "playing", ".">>))
    ELSE IF action = "start" THEN
        LET calls == <<Call("start_playback", <<>>, [spotify_uri |-> spotify_uri])>> IN
        IF beh.k = "raise" THEN Done(calls, beh)
        ELSE Done(calls, Ret(<<"Playback", "starting", ".">>))
    ELSE IF action = "pause" THEN
        LET calls == <<Call("pause_playback", <<>>, NoArgs)>> IN
        IF beh.k = "raise" THEN Done(calls, beh)
        ELSE Done(calls, Ret(<<"Playback", "paused", ".">>))
    ELSE IF action = "skip" THEN
        LET calls == <<Call("skip_track", <<>>, [n |-> num_skips])>> IN
        IF beh.k = "raise" THEN Done(calls, beh)
        ELSE Done(calls, Ret(<<"Skipped", "to", "next", "track", ".">>))
    ELSE Done(<<>>, Ret(<<"Unknown", "playback", "action", ":", action>>))

\* The except clauses.
playback_except(r) ==
    IF r.out.k = "raise" /\ isinstance(r.out.cls, "SpotifyException") THEN
        Done(r.calls, Ret(<<"Spotify", "Client", "error", "occurred", ":", r.out.msg>>))
    ELSE IF r.out.k = "raise" /\ isinstance(r.out.cls, "Exception") THEN
        Done(r.calls, Ret(<<"Unexpected", "error", "occurred", ":", r.out.msg>>))
    ELSE r

playback(kwargs, beh) ==
    playback_except(playback_try(kwargs.action,
                                 Param(kwargs, "spotify_uri", None),
                                 playback_num_skips(kwargs), beh))

----------------------------------------------------------------------------
(* TOOL: queue                                                             *)

\* Faulty variants of the try body, used to show that the properties below
\* depend on it: one without the track_id check, one whose final branch
\* treats every other action as "get".
queue_tool_try_no_validation(action, track_id, beh) ==
    IF action = "add" THEN
        LET calls == <<Call("add_to_queue", <<track_id>>, NoArgs)>> IN
        IF beh.k = "raise" THEN Done(calls, beh)
        ELSE Done(calls, Ret(<<"Track", "added", "to", "queue", ".">>))
    ELSE IF action = "get" THEN
        LET calls == <<Call("get_queue", <<>>, NoArgs)>> IN
        IF beh.k = "raise" THEN Done(calls, beh)
        ELSE ReturnJson(calls, beh.v)
    ELSE Done(<<>>, Ret(<<"Unknown", "queue", "action", ":", action, ".",
                          "Supported", "actions", "are", ":", "add", ",", "get", ".">>))

queue_tool_try_get_default(action, track_id, beh) ==
    IF action = "add" THEN
        IF ~truthy(track_id) THEN
            Done(<<>>, Ret(<<"track_id", "is", "required", "for", "add", "action", ".">>))
        ELSE
            LET calls == <<Call("add_to_queue", <<track_id>>, NoArgs)>> IN
            IF beh.k = "raise" THEN Done(calls, beh)
            ELSE Done(calls, Ret(<<"Track", "added", "to", "queue", ".">>))
    ELSE
        LET calls == <<Call("get_queue", <<>>, NoArgs)>> IN
        IF beh.k = "raise" THEN Done(calls, beh)
        ELSE ReturnJson(calls, beh.v)

queue_tool_try(action, track_id, beh) ==
    IF action = "add" THEN
        IF ~truthy(track_id) THEN
            Done(<<>>, Ret(<<"track_id", "is", "required", "for", "add", "action", ".">>))
        ELSE
            LET calls == <<Call("add_to_queue", <<track_id>>, NoArgs)>> IN
            IF beh.k = "raise" THEN Done(calls, beh)
            ELSE Done(calls, Ret(<<"Track", "added", "to", "queue", ".">>))
    ELSE IF action = "get" THEN
        LET calls == <<Call("get_queue", <<>>, NoArgs)>> IN
        IF beh.k = "raise" THEN Done(calls, beh)
        ELSE ReturnJson(calls, beh.v)
    ELSE Done(<<>>, Ret(<<"Unknown", "queue", "action", ":", action, ".",
                          "Supported", "actions", "are", ":", "add", ",", "get", ".">>))

\* except Exception as e: return f"Error: {str(e)}"
error_except(r) ==
    IF r.out.k = "raise" /\ isinstance(r.out.cls, "Exception") THEN
        Done(r.calls, Ret(<<"Error", ":", r.out.msg>>))
    ELSE r

queue_tool_except(r) == error_except(r)

queue_tool(kwargs, beh) ==
    queue_tool_except(queue_tool_try(kwargs.action, Param(kwargs, "track_id", None), beh))

----------------------------------------------------------------------------
(* TOOL: get_info                                                          *)

get_info_try(item_uri, beh) ==
    LET calls == <<Call("get_info", <<>>, [item_uri |-> item_uri])>> IN
    IF beh.k = "raise" THEN Done(calls, beh)
    ELSE ReturnJson(calls, beh.v)

get_info_except(r) == error_except(r)

get_info(kwargs, beh) == get_info_except(get_info_try(kwargs.item_uri, beh))

----------------------------------------------------------------------------
(* TOOLS: search_audiobook, search                                         *)

search_try(query_, qtype, limit, beh) ==
    LET calls == <<Call("search", <<>>,
                        [query |-> query_, qtype |-> qtype, limit |-> limit])>> IN
    IF beh.k = "raise" THEN Done(calls, beh)
    ELSE ReturnJson(calls, beh.v)

search_except(r) == error_except(r)

search_audiobook(kwargs, beh) ==
    search_except(search_try(kwargs.query,
                             Param(kwargs, "qtype", PyStr("audiobook")),
                             Param(kwargs, "limit", PyInt(DefaultLimit)), beh))

\* The default of search_audiobook in place of that of search, used to show
\* that the forwarding property depends on the signature.
search_qtype_audiobook(kwargs) == Param(kwargs, "qtype", PyStr("audiobook"))

search_qtype(kwargs) == Param(kwargs, "qtype", PyStr("track"))

search(kwargs, beh) ==
    search_except(search_try(kwargs.query, search_qtype(kwargs),
                             Param(kwargs, "limit", PyInt(DefaultLimit)), beh))

----------------------------------------------------------------------------
(* TOOL: playlist                                                          *)

playlist_try(action, playlist_id, track_ids, name, description, beh) ==
    IF action = "get" THEN
        LET calls == <<Call("get_current_user_playlists", <<>>, NoArgs)>> IN
        IF beh.k = "raise" THEN Done(calls, beh)
        ELSE ReturnJson(calls, beh.v)
    ELSE IF action = "get_tracks" THEN
        IF ~truthy(playlist_id) THEN
            Done(<<>>, Ret(<<"playlist_id", "is", "required", "for",
                             "get_tracks", "action", ".">>))
        ELSE
            LET calls == <<Call("get_playlist_tracks", <<playlist_id>>, NoArgs)>> IN
            IF beh.k = "raise" THEN Done(calls, beh)
            ELSE ReturnJson(calls, beh.v)
    ELSE IF action = "add_tracks" THEN
        IF ~truthy(playlist_id) \/ ~truthy(track_ids) THEN
            Done(<<>>, Ret(<<"playlist_id", "and", "track_ids", "are", "required",
                             "for", "add_tracks", "action", ".">>))
        ELSE
            LET calls == <<Call("add_tracks_to_playlist", <<>>,
                                [playlist_id |-> playlist_id, track_ids |-> track_ids])>> IN
            IF beh.k = "raise" THEN Done(calls, beh)
            ELSE Done(calls, Ret(<<"Tracks", "added", "to", "playlist", ".">>))
    ELSE IF action = "remove_tracks" THEN
        IF ~truthy(playlist_id) \/ ~truthy(track_ids) THEN
            Done(<<>>, Ret(<<"playlist_id", "and", "track_ids", "are", "required",
                             "for", "remove_tracks", "action", ".">>))
        ELSE
            LET calls == <<Call("remove_tracks_from_playlist", <<>>,
                                [playlist_id |-> playlist_id, track_ids |-> track_ids])>> IN
            IF beh.k = "raise" THEN Done(calls, beh)
            ELSE Done(calls, Ret(<<"Tracks", "removed", "from", "playlist", ".">>))
    ELSE IF action = "change_details" THEN
        IF ~truthy(playlist_id) THEN
            Done(<<>>, Ret(<<"playlist_id", "is", "required", "for",
                             "change_details", "action", ".">>))
        ELSE IF ~truthy(py_or(name, description)) THEN
            Done(<<>>, Ret(<<"At", "least", "one", "of", "name", "or", "description",
                             "is", "required", "for", "change_details", "action", ".">>))
        ELSE
            LET calls == <<Call("change_playlist_details", <<>>,
                                [playlist_id |-> playlist_id, name |-> name,
                                 description |-> description])>> IN
            IF beh.k = "raise" THEN Done(calls, beh)
            ELSE Done(calls, Ret(<<"Playlist", "details", "changed", ".">>))
    ELSE IF action = "create_playlist" THEN
        IF ~truthy(playlist_id) THEN
            Done(<<>>, Ret(<<"playlist_id", "is", "required", "for",
                             "create_playlist", "action", ".">>))
        ELSE IF ~truthy(py_or(name, description)) THEN
            Done(<<>>, Ret(<<"At", "least", "one", "of", "name", "or", "description",
                             "is", "required", "for", "change_details", "action", ".">>))
        ELSE
            LET calls == <<Call("create_playlist", <<name, description>>, NoArgs)>> IN
            IF beh.k = "raise" THEN Done(calls, beh)
            ELSE Done(calls, Ret(<<"Create", "playlist", ".">>))
    ELSE Done(<<>>, Ret(<<"Unknown", "playlist", "action", ":", action, ".">>))

\* A faulty handler that catches the service failure only, used to show that
\* the containment property depends on the except clause.
playlist_except_service_only(r) ==
    IF r.out.k = "raise" /\ isinstance(r.out.cls, "SpotifyException") THEN
        Done(r.calls, Ret(<<"Error", ":", r.out.msg>>))
    ELSE r

playlist_except(r) == error_except(r)

playlist(kwargs, beh) ==
    playlist_except(playlist_try(kwargs.action,
                                 Param(kwargs, "playlist_id", None),
                                 Param(kwargs, "track_ids", None),
                                 Param(kwargs, "name", None),
                                 Param(kwargs, "description", None), beh))

----------------------------------------------------------------------------
(* Inputs of the tool host.                                                *)

\* The keyword arguments `K`, each also with `name` supplied as a value of V.
Extend(K, name, V) == K \cup {k @@ (name :> v) : k \in K, v \in V}

PlaybackActionInputs == {"get", "start", "pause", "skip", "stop"}
QueueActionInputs == {"add", "get", "clear"}
PlaylistActionInputs ==
    {"get", "get_tracks", "add_tracks", "remove_tracks", "change_details",
     "create_playlist", "delete"}

PlaybackKwargs ==
    Extend(Extend({[action |-> a] : a \in PlaybackActionInputs},
                  "spotify_uri", {None, PyStr("spotify:track:1")}),
           "num_skips", {PyInt(n) : n \in 0..MaxSkips})

QueueKwargs ==
    Extend({[action |-> a] : a \in QueueActionInputs},
           "track_id", {None, PyStr(""), PyStr("t1")})

GetInfoKwargs == {[item_uri |-> u] : u \in {PyStr(""), PyStr("spotify:track:1")}}

SearchKwargs ==
    Extend(Extend({[query |-> PyStr("jazz")]},
                  "qtype", {PyStr("track"), PyStr("album")}),
           "limit", {PyInt(n) : n \in 0..MaxLimit})

PlaylistKwargs ==
    Extend(Extend(Extend(Extend({[action |-> a] : a \in PlaylistActionInputs},
                                "playlist_id", {PyStr(""), PyStr("p1")}),
                         "track_ids", {PyList(<<>>), PyList(<<PyStr("t1")>>)}),
                  "name", {PyStr(""), PyStr("Mix")}),
           "description", {PyStr("road trip")})

\* What the backing client can do in the awaited call.
Payloads ==
    {None, PyDict(<<>>), PyList(<<>>),
     PyDict(<<<<"name", PyStr("Song")>>, <<"duration_ms", PyInt(1)>>>>),
     PyList(<<PyStr("a"), PyDict(<<<<"id", None>>>>)>>),
     PyObject}

Behaviours ==
    {Ret(v) : v \in Payloads}
    \cup {Exc(c, "timed out") : c \in {"SpotifyException", "ConnectionError"}}

NotAwaited == [k |-> "none"]

NotInvoked ==
    [tool |-> "none", kwargs |-> <<>>, beh |-> NotAwaited, calls |-> <<>>,
     out |-> [k |-> "none"]]

\* The record of one invocation: the request, what the backing client did
\* in the awaited call (if one was made), the calls made and the outcome.
Invocation(tool, kwargs, beh, r) ==
    [tool |-> tool, kwargs |-> kwargs,
     beh |-> IF r.calls = <<>> THEN NotAwaited ELSE beh,
     calls |-> r.calls, out |-> r.out]

----------------------------------------------------------------------------
(* Tool host: one action per registered tool.  The host serves one request  *)
(* at a time: a tool runs from its call to its return.                     *)

Playback ==
    \E kwargs \in PlaybackKwargs, beh \in Behaviours :
        /\ last = NotInvoked
        /\ last' = Invocation("playback", kwargs, beh, playback(kwargs, beh))
        /\ UNCHANGED clientVars

QueueTool ==
    \E kwargs \in QueueKwargs, beh \in Behaviours :
        /\ last = NotInvoked
        /\ last' = Invocation("queue", kwargs, beh, queue_tool(kwargs, beh))
        /\ UNCHANGED clientVars

GetInfo ==
    \E kwargs \in GetInfoKwargs, beh \in Behaviours :
        /\ last = NotInvoked
        /\ last' = Invocation("get_info", kwargs, beh, get_info(kwargs, beh))
        /\ UNCHANGED clientVars

SearchAudiobook ==
    \E kwargs \in SearchKwargs, beh \in Behaviours :
        /\ last = NotInvoked
        /\ last' = Invocation("search_audiobook", kwargs, beh,
                              search_audiobook(kwargs, beh))
        /\ UNCHANGED clientVars

Search ==
    \E kwargs \in SearchKwargs, beh \in Behaviours :
        /\ last = NotInvoked
        /\ last' = Invocation("search", kwargs, beh, search(kwargs, beh))
        /\ UNCHANGED clientVars

Playlist ==
    \E kwargs \in PlaylistKwargs, beh \in Behaviours :
        /\ last = NotInvoked
        /\ last' = Invocation("playlist", kwargs, beh, playlist(kwargs, beh))
        /\ UNCHANGED clientVars

\* The string is handed back to the caller; nothing of the request outlives
\* the call.
Reply ==
    /\ last /= NotInvoked
    /\ last' = NotInvoked
    /\ UNCHANGED clientVars

----------------------------------------------------------------------------
(* Agent client: main().                                                   *)

\* toolsets=[arxiv_mcp]
Toolsets == <<"arxiv_mcp">>

ArgvInputs == {<<>>, <<"play some jazz">>}
RunOutcomes == {Ret("the answer"), Exc("ConnectionError", "timed out")}

NoQuery == "<unset>"
NoResult == [k |-> "none"]

Opened(h) == [e |-> "open", host |-> h]
Closed(h) == [e |-> "close", host |-> h]
Ran(q) == [e |-> "run", query |-> q]
Printed(text) == [e |-> "print", text |-> text]

\* The connections of the first n toolsets opened, in order.
OpenEvents(n) == [i \in 1..n |-> Opened(Toolsets[i])]
\* The same connections closed, last opened first.
CloseEvents(n) == [i \in 1..n |-> Closed(Toolsets[n + 1 - i])]

\* parser.parse_args(): exactly one positional argument, else a usage error
\* ends the process.
ParseArgs ==
    /\ cpc = "start"
    /\ \E argv \in ArgvInputs :
          IF Len(argv) = 1
          THEN /\ query' = argv[1]
               /\ cpc' = "enter"
          ELSE /\ query' = query
               /\ cpc' = "usage_error"
    /\ UNCHANGED <<opened, result, events, hostVars>>

\* `async with agent:` on entry: the toolsets are entered in order; when one
\* fails to connect, those entered before it are left again and the failure
\* propagates out of main().
AgentEnter ==
    /\ cpc = "enter"
    /\ \E n \in 0..Len(Toolsets) :
          IF n = Len(Toolsets)
          THEN /\ opened' = {Toolsets[i] : i \in 1..n}
               /\ events' = events \o OpenEvents(n)
               /\ cpc' = "run"
          ELSE /\ opened' = {}
               /\ events' = events \o OpenEvents(n) \o CloseEvents(n)
               /\ cpc' = "failed"
    /\ UNCHANGED <<query, result, hostVars>>

\* result = await agent.run(args.query)
AgentRun ==
    /\ cpc = "run"
    /\ events' = Append(events, Ran(query))
    /\ result' \in RunOutcomes
    /\ cpc' = "leave"
    /\ UNCHANGED <<query, opened, hostVars>>

\* A faulty exit that leaves the connections open when the run failed, used
\* to show that the teardown property depends on the exit.
AgentExitSkipsTeardownOnFailure ==
    /\ cpc = "leave"
    /\ IF result.k = "raise"
       THEN /\ UNCHANGED <<opened, events>>
            /\ cpc' = "failed"
       ELSE /\ opened' = {}
            /\ events' = events \o CloseEvents(Len(Toolsets))
            /\ cpc' \in {"print", "failed"}
    /\ UNCHANGED <<query, result, hostVars>>

\* `async with agent:` on exit, reached whether the run returned or raised:
\* the toolsets are left, last entered first.  An exception of the run, or
\* one raised while leaving, propagates out of main().
AgentExit ==
    /\ cpc = "leave"
    /\ opened' = {}
    /\ events' = events \o CloseEvents(Len(Toolsets))
    /\ \E teardown_ok \in BOOLEAN :
          cpc' = IF result.k = "raise" \/ ~teardown_ok THEN "failed" ELSE "print"
    /\ UNCHANGED <<query, result, hostVars>>

\* print(result.output)
PrintOutput ==
    /\ cpc = "print"
    /\ events' = Append(events, Printed(result.v))
    /\ cpc' = "done"
    /\ UNCHANGED <<query, opened, result, hostVars>>

----------------------------------------------------------------------------

Init ==
    /\ last = NotInvoked
    /\ cpc = "start"
    /\ query = NoQuery
    /\ opened = {}
    /\ result = NoResult
    /\ events = <<>>

Next ==
    \/ Playback
    \/ QueueTool
    \/ GetInfo
    \/ SearchAudiobook
    \/ Search
    \/ Playlist
    \/ Reply
    \/ ParseArgs
    \/ AgentEnter
    \/ AgentRun
    \/ AgentExit
    \/ PrintOutput

Spec == Init /\ [][Next]_vars

----------------------------------------------------------------------------
(* Vocabulary of the properties.                                           *)

Invoked == last.tool /= "none"
Returned == last.out.k = "return"
Text == last.out.v

Contains(text, w) == \E i \in DOMAIN text : text[i] = w
StartsWith(text, p) == Len(text) >= Len(p) /\ SubSeq(text, 1, Len(p)) = p
IsString(text) == \A i \in DOMAIN text : text[i] \in STRING

Supplied(f) == f \in DOMAIN last.kwargs /\ last.kwargs[f] /= None
Present(f) == Supplied(f) /\ truthy(last.kwargs[f])

\* The action sets of the dispatching capabilities.
KnownActions ==
    [playback |-> {"get", "start", "pause", "skip"},
     queue    |-> {"add", "get"},
     playlist |-> {"get", "get_tracks", "add_tracks", "remove_tracks",
                   "change_details", "create_playlist"}]

Dispatching == last.tool \in DOMAIN KnownActions
UnknownAction == Dispatching /\ last.kwargs.action \notin KnownActions[last.tool]

\* C1: whatever the backing client does in the awaited call (returns a value,
\* raises the service failure, raises another exception), every tool returns
\* a string; no exception leaves a tool.
NoExceptionEscapes == Invoked => (Returned /\ IsString(Text))

\* C1, the case: the playlist tool has awaited a call that raised an
\* exception other than the service failure.
OtherFailureContained ==
    /\ last.tool = "playlist"
    /\ last.beh.k = "raise"
    /\ last.beh.cls = "ConnectionError"
    /\ Returned

\* The required fields of the actions that have some, each requirement a set
\* of fields of which one suffices.
RequiredFields ==
    [queue    |-> [add |-> {{"track_id"}}],
     playlist |-> [get_tracks     |-> {{"playlist_id"}},
                   add_tracks     |-> {{"playlist_id"}, {"track_ids"}},
                   remove_tracks  |-> {{"playlist_id"}, {"track_ids"}},
                   change_details |-> {{"playlist_id"}, {"name", "description"}}]]

HasRequiredFields ==
    /\ last.tool \in DOMAIN RequiredFields
    /\ last.kwargs.action \in DOMAIN RequiredFields[last.tool]

\* The requirements of the request none of whose fields was supplied.
Omitted ==
    {g \in RequiredFields[last.tool][last.kwargs.action] : \A f \in g : ~Supplied(f)}

\* The requirements of the request that are not met: every field of the
\* requirement is omitted, None or empty.
Unmet ==
    {g \in RequiredFields[last.tool][last.kwargs.action] : \A f \in g : ~Present(f)}

\* C2: a request that omits a required field of its action (queue add:
\* track_id; playlist get_tracks, add_tracks, remove_tracks, change_details:
\* playlist_id; add_tracks, remove_tracks: track_ids; change_details: name or
\* description) returns a string that contains the name of a field it lacks
\* (the omitted one, when no other requirement is unmet), and the backing
\* client is not called.
MissingFieldNamed ==
    (HasRequiredFields /\ Omitted /= {}) =>
        /\ last.calls = <<>>
        /\ Returned
        /\ \E g \in Unmet : \A f \in g : Contains(Text, f)

\* C2, the case: change_details with a playlist_id and neither name nor
\* description has been rejected.
ChangeDetailsWithoutNameRejected ==
    /\ last.tool = "playlist"
    /\ last.kwargs.action = "change_details"
    /\ Present("playlist_id")
    /\ Omitted = {{"name", "description"}}
    /\ Unmet = Omitted
    /\ Returned

\* The name a capability bears in its "unknown action" string.
UnknownText == <<"Unknown", last.tool, "action", ":", last.kwargs.action>>

\* C3 as stated: an action outside the capability's action set returns
\* exactly "Unknown <capability> action: <action>" and the backing client is
\* not called.
UnknownActionExactForm ==
    UnknownAction => (Returned /\ Text = UnknownText /\ last.calls = <<>>)

\* C3 as amended: an action outside the capability's action set returns a
\* string that begins with "Unknown <capability> action: <action>" (queue and
\* playlist continue the sentence) and the backing client is not called.
UnknownActionReported ==
    UnknownAction => (Returned /\ StartsWith(Text, UnknownText) /\ last.calls = <<>>)

\* C3, the case: the queue tool has been called with an action it does not
\* know.
UnknownQueueAction ==
    /\ last.tool = "queue"
    /\ last.kwargs.action = "clear"
    /\ Returned

ServiceLabelled(text) == StartsWith(text, <<"Spotify", "Client", "error">>)
GenericError(text) ==
    \/ StartsWith(text, <<"Unexpected", "error">>)
    \/ StartsWith(text, <<"Error", ":">>)

\* C4: in every tool, when the awaited backing call raises the service
\* failure the returned string begins with a label naming it a service error,
\* and when it raises another exception the string has the generic error
\* form; the two are told apart by the returned text.
FailureKindsDistinguished ==
    (Invoked /\ last.beh.k = "raise") =>
        /\ Returned
        /\ IF isinstance(last.beh.cls, "SpotifyException")
           THEN ServiceLabelled(Text) /\ ~GenericError(Text)
           ELSE GenericError(Text) /\ ~ServiceLabelled(Text)

\* C5: create_playlist with a name or a description and no playlist
\* identifier is accepted: the backing client's create_playlist is called
\* once, and when it returns the tool returns its confirmation, not a
\* missing-field string.
CreatePlaylistNeedsNoId ==
    ( /\ last.tool = "playlist"
      /\ last.kwargs.action = "create_playlist"
      /\ (Present("name") \/ Present("description"))
      /\ "playlist_id" \notin DOMAIN last.kwargs ) =>
        /\ Len(last.calls) = 1
        /\ last.calls[1].op = "create_playlist"
        /\ ~Contains(Text, "required")
        /\ (last.beh.k = "return" => Text = <<"Create", "playlist", ".">>)

\* The queries that only read: tool and, for a dispatching tool, action.
Informational ==
    \/ last.tool \in {"get_info", "search"}
    \/ last.tool \in {"playback", "queue", "playlist"} /\ last.kwargs.action = "get"
    \/ last.tool = "playlist" /\ last.kwargs.action = "get_tracks"

EmptyPayloadTexts == {<<"null">>, <<"{}">>, <<"[]">>, <<>>}

\* C6: an informational query whose backing call returns an absent or empty
\* result returns a sentence saying so, never an empty or null serialized
\* payload.
AbsentResultExplained ==
    ( /\ Informational
      /\ last.beh.k = "return"
      /\ last.beh.v.t \in {"None", "list", "dict"}
      /\ ~truthy(last.beh.v) ) =>
        (Returned /\ Text \notin EmptyPayloadTexts)

\* C8: playback skip makes the single call skip_track(n=k) where k is the
\* num_skips supplied, and 1 when none was supplied.
SkipCountForwarded ==
    (last.tool = "playback" /\ last.kwargs.action = "skip") =>
        last.calls =
            <<Call("skip_track", <<>>,
                   [n |-> IF "num_skips" \in DOMAIN last.kwargs
                          THEN last.kwargs.num_skips ELSE PyInt(1)])>>

\* C8, the case: a skip with no num_skips supplied.
SkipWithoutCount ==
    /\ last.tool = "playback"
    /\ last.kwargs.action = "skip"
    /\ "num_skips" \notin DOMAIN last.kwargs
    /\ Returned

\* C9: search makes the single call search(query, qtype, limit) with the
\* values supplied, qtype "track" and limit 10 standing for those omitted.
SearchArgumentsForwarded ==
    last.tool = "search" =>
        last.calls =
            <<Call("search", <<>>,
                   [query |-> last.kwargs.query,
                    qtype |-> IF "qtype" \in DOMAIN last.kwargs
                              THEN last.kwargs.qtype ELSE PyStr("track"),
                    limit |-> IF "limit" \in DOMAIN last.kwargs
                              THEN last.kwargs.limit ELSE PyInt(10)])>>

\* C9, the case: a search with neither qtype nor limit.
SearchWithDefaults ==
    /\ last.tool = "search"
    /\ DOMAIN last.kwargs = {"query"}
    /\ Returned

\* The backing operation of each capability and action.
Operation ==
    [playback |-> [get |-> "get_current_track", start |-> "start_playback",
                   pause |-> "pause_playback", skip |-> "skip_track"],
     queue    |-> [add |-> "add_to_queue", get |-> "get_queue"],
     playlist |-> [get |-> "get_current_user_playlists",
                   get_tracks |-> "get_playlist_tracks",
                   add_tracks |-> "add_tracks_to_playlist",
                   remove_tracks |-> "remove_tracks_from_playlist",
                   change_details |-> "change_playlist_details",
                   create_playlist |-> "create_playlist"]]

ExpectedOperation ==
    IF Dispatching THEN Operation[last.tool][last.kwargs.action]
    ELSE IF last.tool = "search_audiobook" THEN "search" ELSE last.tool

\* The requirements of the request, create_playlist asking for a name or a
\* description only.
Requirements ==
    IF HasRequiredFields THEN RequiredFields[last.tool][last.kwargs.action]
    ELSE IF last.tool = "playlist" /\ last.kwargs.action = "create_playlist"
         THEN {{"name", "description"}}
         ELSE {}

Valid == ~UnknownAction /\ \A g \in Requirements : \E f \in g : Present(f)

\* C10: every invocation makes at most one backing call; one whose action is
\* known and whose required fields are present makes exactly one, to the
\* operation of its action; a rejected one makes none.
OneCallWhenValid ==
    Invoked =>
        /\ Len(last.calls) <= 1
        /\ Valid => (Len(last.calls) = 1 /\ last.calls[1].op = ExpectedOperation)
        /\ ~Valid => last.calls = <<>>

\* C10 outside create_playlist: the same, for every other capability and
\* action.
OneCallWhenValidExceptCreate ==
    (Invoked /\ ~(last.tool = "playlist" /\ last.kwargs.action = "create_playlist"))
        => OneCallWhenValid

----------------------------------------------------------------------------
(* Properties of the agent client.                                         *)

Hosts == {Toolsets[i] : i \in DOMAIN Toolsets}
At(kind) == {i \in DOMAIN events : events[i].e = kind}
RunCount == Cardinality(At("run"))
Exited == cpc \in {"usage_error", "failed", "done"}
ConnectionsOpened == \A h \in Hosts : \E i \in DOMAIN events : events[i] = Opened(h)

\* Host h is connected when event i happens.
OpenAt(h, i) ==
    \E j \in 1..(i - 1) :
        /\ events[j] = Opened(h)
        /\ \A k \in (j + 1)..(i - 1) : events[k] /= Closed(h)

ScopedAroundRun == \A i \in At("run") : \A h \in Hosts : OpenAt(h, i)

TornDownOnExit ==
    Exited =>
        /\ opened = {}
        /\ \A j \in At("open") :
              \E k \in DOMAIN events : k > j /\ events[k] = Closed(events[j].host)

PrintedOnlyAfterSuccess ==
    /\ Cardinality(At("print")) <= 1
    /\ \A i \in At("print") :
          /\ result = Ret(events[i].text)
          /\ \E r \in At("run") : r < i
          /\ \A h \in Hosts : \E k \in 1..(i - 1) : events[k] = Closed(h)
          /\ \A h \in Hosts : ~OpenAt(h, i)

FailureSilent == cpc \in {"failed", "usage_error"} => At("print") = {}

\* C7 as stated: the connections are open when the run starts and closed on
\* exit whether it succeeds or fails; every run of the client that got its
\* query invokes the run loop exactly once; the output is printed only after
\* a successful run and after teardown; a failure prints nothing.
RunLoopExactlyOnce ==
    /\ ScopedAroundRun
    /\ TornDownOnExit
    /\ PrintedOnlyAfterSuccess
    /\ FailureSilent
    /\ (Exited /\ query /= NoQuery) => RunCount = 1

\* C7 as amended: the same, the run loop being invoked at most once, and
\* exactly once in every run in which the connections were opened.
RunLoopOnceWhenConnected ==
    /\ ScopedAroundRun
    /\ TornDownOnExit
    /\ PrintedOnlyAfterSuccess
    /\ FailureSilent
    /\ RunCount <= 1
    /\ (Exited /\ ConnectionsOpened) => RunCount = 1

\* C7, the case: the run loop failed, the connections were closed and the
\* process ended without printing.
FailedRunTornDown ==
    /\ cpc = "failed"
    /\ result.k = "raise"
    /\ RunCount = 1
    /\ \A h \in Hosts : Contains(events, Closed(h))

====
